---- MODULE Spec2Model ----
(***************************************************************************)
(* Model of benchmark.py: the ctypes-based os_listdir (win32 and posix     *)
(* variants) and the recursive generator os_walk built on it.              *)
(*                                                                         *)
(* The operating system is an environment: a small directory tree, with   *)
(* or without a symbolic link that closes a cycle, and one optional native *)
(* fault (a failing open, a failing advance, a failing close), both fixed  *)
(* for the whole behaviour, so that two walks of one behaviour see the     *)
(* same OS answers.                                                        *)
(* Paths are sequences of entry names relative to the walk's top, so       *)
(* os.path.join(top, name) is Append(top, name).                           *)
(***************************************************************************)
EXTENDS Integers, Sequences, FiniteSets, TLC

\* ---------------------------------------------------------------- bounds

\* Symbolic links the OS resolves in one path before it answers ELOOP.
MaxLinks == 1

\* Calls of os_walk one behaviour makes on the same tree.
MaxWalks == 2

\* ------------------------------------------------- the OS: the directory tree

VARIABLE
    tree        \* the fixture: "linked" (C holds the link up) or "plain"

Trees == {"linked", "plain"}

DirNodes == {"R", "A", "B", "C"}

\* Native enumeration order of every directory, pseudo-entries included.
NativeOrder(node) ==
    CASE node = "R" -> <<".", "..", "a", "f", "c">>
      [] node = "A" -> <<"b", ".", "g", "..">>
      [] node = "B" -> <<".", "..", "h">>
      [] node = "C" -> IF tree = "linked" THEN <<"..", "up", ".">> ELSE <<"..", ".">>

\* What an entry name of a directory refers to: target node and whether the
\* entry itself is a symbolic link.  "up" in C, in the linked tree, is a link
\* to C itself, so the links of the tree form a cycle.
Entry(node, name) ==
    CASE name = "."  -> [target |-> node, link |-> FALSE]
      [] name = ".." -> [target |-> node, link |-> FALSE]
      [] node = "R" /\ name = "a"  -> [target |-> "A", link |-> FALSE]
      [] node = "R" /\ name = "c"  -> [target |-> "C", link |-> FALSE]
      [] node = "R" /\ name = "f"  -> [target |-> "file", link |-> FALSE]
      [] node = "A" /\ name = "b"  -> [target |-> "B", link |-> FALSE]
      [] node = "A" /\ name = "g"  -> [target |-> "file", link |-> FALSE]
      [] node = "B" /\ name = "h"  -> [target |-> "file", link |-> FALSE]
      [] node = "C" /\ name = "up" /\ tree = "linked" -> [target |-> "C", link |-> TRUE]
      [] OTHER -> [target |-> "missing", link |-> FALSE]

Names == {".", "..", "a", "b", "c", "f", "g", "h", "up"}

RECURSIVE ResolveFrom(_, _, _)
\* Path resolution by the OS, following links: the node reached and the
\* number of links traversed; "eloop" once more than MaxLinks were followed.
ResolveFrom(node, path, links) ==
    IF path = <<>> THEN [node |-> node, links |-> links]
    ELSE IF node \notin DirNodes THEN [node |-> "missing", links |-> links]
    ELSE LET e == Entry(node, Head(path))
             n == links + (IF e.link THEN 1 ELSE 0)
         IN  IF n > MaxLinks THEN [node |-> "eloop", links |-> n]
             ELSE ResolveFrom(e.target, Tail(path), n)

Resolve(path) == ResolveFrom("R", path, 0)

\* os.path.isdir: follows links, False on any failure.
isdir(path) == Resolve(path).node \in DirNodes

\* os.path.islink: lstat of the last component.
islink(path) ==
    /\ path # <<>>
    /\ LET parent == Resolve(SubSeq(path, 1, Len(path) - 1))
       IN  /\ parent.node \in DirNodes
           /\ Entry(parent.node, path[Len(path)]).link

\* os.path.join(top, name)
join(top, name) == Append(top, name)

\* ------------------------------------------------- the OS: names as bytes

\* betterwalk.file_system_encoding applied to an entry name: the bytes the
\* posix API stores in dirent.d_name and takes in a path.
Encode(name) ==
    CASE name = "."  -> <<46>>
      [] name = ".." -> <<46, 46>>
      [] name = "a"  -> <<97>>
      [] name = "b"  -> <<98>>
      [] name = "c"  -> <<99>>
      [] name = "f"  -> <<102>>
      [] name = "g"  -> <<103>>
      [] name = "h"  -> <<104>>
      [] name = "up" -> <<117, 112>>

\* entry.d_name.decode(betterwalk.file_system_encoding)
Decode(bytes) == CHOOSE n \in Names : Encode(n) = bytes

\* path.encode(betterwalk.file_system_encoding), component by component
EncodePath(path) == [i \in 1..Len(path) |-> Encode(path[i])]

\* ------------------------------------------------- the OS: native faults

Platforms == {"win32", "posix"}

OpenFailures(p) ==
    IF p = "win32"
    THEN {"ERROR_FILE_NOT_FOUND", "ERROR_PATH_NOT_FOUND", "ERROR_ACCESS_DENIED",
          "ERROR_NOT_READY"}
    ELSE {"ENOENT", "EACCES", "EIO"}

AdvanceFailure(p) == IF p = "win32" THEN "ERROR_NOT_READY" ELSE "EIO"

CloseFailure(p) == IF p = "win32" THEN "ERROR_INVALID_HANDLE" ELSE "EBADF"

NoFault == [node |-> "none", open |-> "ok", adv |-> -1, close |-> FALSE]

\* One directory of the tree may be faulty: its open fails with a status, or
\* its advance fails after adv successful advance calls, or its close fails,
\* or both of the last two.
Faults(p) ==
    {NoFault}
    \cup {[node |-> n, open |-> s, adv |-> -1, close |-> FALSE] :
            n \in DirNodes, s \in OpenFailures(p)}
    \cup UNION {{[node |-> n, open |-> "ok", adv |-> k, close |-> c] :
                    k \in 0..(Len(NativeOrder(n)) - (IF p = "win32" THEN 1 ELSE 0)),
                    c \in BOOLEAN} : n \in DirNodes}
    \cup {[node |-> n, open |-> "ok", adv |-> -1, close |-> TRUE] : n \in DirNodes}

\* ------------------------------------------------------------------ state

VARIABLES
    platform,   \* sys.platform: which os_listdir is defined
    fault,      \* the OS's faulty directory, if any
    args,       \* the arguments of the current os_walk call
    gen,        \* the generator: "fresh", "running", "suspended", "done", "closed"
    stack,      \* the nested os_walk activations, outermost first
    ld,         \* the running os_listdir activation
    sessions,   \* every native open so far, with its advances and closes
    out,        \* the frames the consumer has received, in order
    kept,       \* the dirs list of each of these frames as the consumer left it
    errors,     \* the errors onerror has received, in order
    mutated,    \* whether the consumer has changed a dirs list of this walk
    prev,       \* the result of the preceding fully consumed walk
    walkNo      \* the number of os_walk calls made so far

vars == <<tree, platform, fault, args, gen, stack, ld, sessions, out, kept, errors,
          mutated, prev, walkNo>>

NoExc == [class |-> "none", path |-> <<>>, status |-> "none"]

IdleLd == [pc |-> "idle", pos |-> 0, names |-> <<>>, exc |-> NoExc]

NoPrev == [valid |-> FALSE, topdown |-> FALSE, out |-> <<>>, errors |-> <<>>]

Args == [topdown : {"omitted", "True", "False"}, onerror : BOOLEAN,
         followlinks : BOOLEAN]

\* Mutant: the default of topdown is False.
topdown_default_false == args.topdown = "True"

\* def os_walk(top, topdown=True, onerror=None, followlinks=False)
topdown == IF args.topdown = "omitted" THEN TRUE ELSE args.topdown = "True"

Activation(top) ==
    [top |-> top, pc |-> "listdir", names |-> <<>>, dirs |-> <<>>,
     nondirs |-> <<>>, i |-> 1]

Init ==
    /\ tree \in Trees
    /\ platform \in Platforms
    /\ fault \in Faults(platform)
    /\ args \in Args
    /\ gen = "fresh"
    /\ stack = <<Activation(<<>>)>>
    /\ ld = IdleLd
    /\ sessions = <<>>
    /\ out = <<>>
    /\ kept = <<>>
    /\ errors = <<>>
    /\ mutated = FALSE
    /\ prev = NoPrev
    /\ walkNo = 1

Top == stack[Len(stack)]

Pop(stk) == SubSeq(stk, 1, Len(stk) - 1)

SetTop(stk, f) == [stk EXCEPT ![Len(stk)] = f]

\* The node a path names, as the native layer sees it.
NodeOf(path) == Resolve(path).node

Faulty(path) == fault.node = NodeOf(path)

\* The newest session: the one the running os_listdir opened.
Cur == sessions[Len(sessions)]

SetCur(s) == [sessions EXCEPT ![Len(sessions)] = s]

\* The record of one os_listdir call: whether its native open succeeded, the
\* native advance and close calls made on it, the entry names taken from it,
\* and how the call ended ("returned" with names, or "raised" with err).
Session(path, ok) ==
    [path |-> path, ok |-> ok, advances |-> 0, closes |-> 0, entries |-> <<>>,
     outcome |-> "pending", names |-> <<>>, err |-> NoExc]

Returns(s, names) == [s EXCEPT !.outcome = "returned", !.names = names]

Raises(s, err) == [s EXCEPT !.outcome = "raised", !.err = err]

\* ------------------------------------------- os_walk around os_listdir

\* raise betterwalk.win_error(error, path) / betterwalk.posix_error(path):
\* an OSError carrying the native status and the path.
os_error(status, path) == [class |-> "OSError", path |-> path, status |-> status]

\* names = os_listdir(top) returned normally: line 77 completes.
GotNames(names) ==
    /\ stack' = SetTop(stack, [Top EXCEPT !.names = names, !.pc = "partition"])
    /\ UNCHANGED <<gen, errors>>

\* Mutant: without a handler the error is raised again.
Caught_if_handled(err) == err.class = "OSError" /\ args.onerror

\* except OSError as err
Caught(err) == err.class = "OSError"

\* An exception leaves the generator: it reaches the consumer's next().
Propagate ==
    /\ gen' = "failed"
    /\ stack' = <<>>
    /\ UNCHANGED errors

\* Mutant: the return after the handler is missing, so the walk of the
\* directory goes on with no names.
Raised_no_return(err) ==
    /\ errors' = IF args.onerror THEN Append(errors, err) ELSE errors
    /\ stack' = SetTop(stack, [Top EXCEPT !.names = <<>>, !.pc = "partition"])
    /\ UNCHANGED gen

\* os_listdir raised (lines 78-81): except OSError: onerror(err) if onerror
\* is not None, then return; anything else propagates.
Raised(err) ==
    IF Caught(err)
    THEN /\ errors' = IF args.onerror THEN Append(errors, err) ELSE errors
         /\ stack' = Pop(stack)
         /\ gen' = IF Len(stack) = 1 THEN "done" ELSE gen
    ELSE Propagate

Running(pc) ==
    /\ gen = "running"
    /\ stack # <<>>
    /\ Top.pc = pc

\* Mutant: only the self entry is filtered.
keep_parent(name) == name # "."

\* name not in ('.', '..')
keep(name) == name \notin {".", ".."}

append(names, name) == IF keep(name) THEN Append(names, name) ELSE names

\* Mutant: the result of the native open is never tested.
invalid_unchecked(st) == FALSE

\* handle == betterwalk.INVALID_HANDLE_VALUE / not dir_p
invalid(st) == st # "ok"

\* Mutant: ERROR_PATH_NOT_FOUND is taken for an empty listing too.
is_any_not_found(error) == error \in {"ERROR_FILE_NOT_FOUND", "ERROR_PATH_NOT_FOUND"}

\* error == betterwalk.ERROR_FILE_NOT_FOUND
is_file_not_found(error) == error = "ERROR_FILE_NOT_FOUND"

\* ------------------------------------------------- the native calls

\* FindFirstFile(path\*, data) / opendir(path): "ok", or the native status
\* of the failure.
NativeOpen(path) ==
    IF NodeOf(path) \notin DirNodes
    THEN (IF platform = "win32" THEN "ERROR_PATH_NOT_FOUND" ELSE "ENOENT")
    ELSE IF Faulty(path) /\ fault.open # "ok" THEN fault.open
    ELSE "ok"

FindFirstFile(path) == NativeOpen(path)

\* opendir gets the encoded path; the OS names the same directory with it.
opendir(bytes) == NativeOpen([i \in 1..Len(bytes) |-> Decode(bytes[i])])

\* The advance call made after `done` successful ones, with `pos` entries of
\* the listing already handed out: "ok", "end" (ERROR_NO_MORE_FILES, or a
\* null result), or the native status of the failure.
NativeAdvance(path, done, pos) ==
    IF Faulty(path) /\ fault.adv = done THEN AdvanceFailure(platform)
    ELSE IF pos >= Len(NativeOrder(NodeOf(path))) THEN "end"
    ELSE "ok"

FindNextFile(path, done, pos) == NativeAdvance(path, done, pos)

readdir_r(path, done, pos) == NativeAdvance(path, done, pos)

\* FindClose(handle) / closedir(dir_p): "ok", or the status of the failure.
NativeClose(path) ==
    IF Faulty(path) /\ fault.close THEN CloseFailure(platform) ELSE "ok"

\* ------------------------------------------------- os_listdir, win32

\* Lines 21-30: FindFirstFile; an invalid handle is ERROR_FILE_NOT_FOUND
\* (return []) or an error; a valid one starts the loop with the first entry
\* in data.
OpenWin32 ==
    /\ platform = "win32"
    /\ Running("listdir")
    /\ ld.pc = "idle"
    /\ LET path == Top.top
           st == FindFirstFile(path)
           s == Session(path, st = "ok")
       IN  IF invalid(st)
           THEN /\ ld' = IdleLd
                /\ IF is_file_not_found(st)
                   THEN /\ sessions' = Append(sessions, Returns(s, <<>>))
                        /\ GotNames(<<>>)
                   ELSE /\ sessions' = Append(sessions, Raises(s, os_error(st, path)))
                        /\ Raised(os_error(st, path))
           ELSE /\ sessions' = Append(sessions, s)
                /\ ld' = [pc |-> "loop", pos |-> 1, names |-> <<>>, exc |-> NoExc]
                /\ UNCHANGED <<stack, gen, errors>>
    /\ UNCHANGED <<tree, platform, fault, args, out, kept, mutated, prev, walkNo>>

\* Mutant: a failed FindNextFile ends the loop like ERROR_NO_MORE_FILES, so the
\* names read so far are returned.
StepWin32_break_on_error ==
    /\ platform = "win32"
    /\ Running("listdir")
    /\ ld.pc = "loop"
    /\ LET path == Top.top
           name == NativeOrder(NodeOf(path))[ld.pos]
           names == append(ld.names, name)
           st == FindNextFile(path, Cur.advances, ld.pos)
       IN  /\ sessions' = SetCur([Cur EXCEPT !.advances = @ + 1,
                                             !.entries = Append(@, name)])
           /\ ld' = IF st = "ok" THEN [ld EXCEPT !.names = names, !.pos = @ + 1]
                    ELSE [ld EXCEPT !.names = names, !.pc = "finally"]
    /\ UNCHANGED <<tree, platform, fault, args, gen, stack, out, kept, errors, mutated,
                   prev, walkNo>>

\* Lines 32-41: one iteration: take data.cFileName, filter, FindNextFile.
StepWin32 ==
    /\ platform = "win32"
    /\ Running("listdir")
    /\ ld.pc = "loop"
    /\ LET path == Top.top
           name == NativeOrder(NodeOf(path))[ld.pos]
           names == append(ld.names, name)
           st == FindNextFile(path, Cur.advances, ld.pos)
       IN  /\ sessions' = SetCur([Cur EXCEPT !.advances = @ + 1,
                                             !.entries = Append(@, name)])
           /\ ld' = CASE st = "ok" -> [ld EXCEPT !.names = names, !.pos = @ + 1]
                      [] st = "end" -> [ld EXCEPT !.names = names, !.pc = "finally"]
                      [] OTHER -> [ld EXCEPT !.names = names, !.pc = "finally",
                                             !.exc = os_error(st, path)]
    /\ UNCHANGED <<tree, platform, fault, args, gen, stack, out, kept, errors, mutated,
                   prev, walkNo>>

\* Mutant: the error pending from the loop wins over that of FindClose.
CloseWin32_pending_first ==
    /\ platform = "win32"
    /\ Running("listdir")
    /\ ld.pc = "finally"
    /\ LET path == Top.top
           st == NativeClose(path)
           s == [Cur EXCEPT !.closes = @ + 1]
           err == IF ld.exc # NoExc THEN ld.exc
                  ELSE IF st # "ok" THEN os_error(st, path) ELSE NoExc
       IN  IF err # NoExc
           THEN /\ sessions' = SetCur(Raises(s, err))
                /\ Raised(err)
           ELSE /\ sessions' = SetCur(Returns(s, ld.names))
                /\ GotNames(ld.names)
    /\ ld' = IdleLd
    /\ UNCHANGED <<tree, platform, fault, args, out, kept, mutated, prev, walkNo>>

\* Mutant: a failed FindClose is attempted a second time.
CloseWin32_retry ==
    /\ platform = "win32"
    /\ Running("listdir")
    /\ ld.pc = "finally"
    /\ LET path == Top.top
           st == NativeClose(path)
           s == [Cur EXCEPT !.closes = IF st # "ok" THEN @ + 2 ELSE @ + 1]
           err == IF st # "ok" THEN os_error(st, path) ELSE ld.exc
       IN  IF err # NoExc
           THEN /\ sessions' = SetCur(Raises(s, err))
                /\ Raised(err)
           ELSE /\ sessions' = SetCur(Returns(s, ld.names))
                /\ GotNames(ld.names)
    /\ ld' = IdleLd
    /\ UNCHANGED <<tree, platform, fault, args, out, kept, mutated, prev, walkNo>>

\* Lines 42-45: finally: FindClose, whose failure raises; else the pending
\* error goes on, or names is returned.
CloseWin32 ==
    /\ platform = "win32"
    /\ Running("listdir")
    /\ ld.pc = "finally"
    /\ LET path == Top.top
           st == NativeClose(path)
           s == [Cur EXCEPT !.closes = @ + 1]
           err == IF st # "ok" THEN os_error(st, path) ELSE ld.exc
       IN  IF err # NoExc
           THEN /\ sessions' = SetCur(Raises(s, err))
                /\ Raised(err)
           ELSE /\ sessions' = SetCur(Returns(s, ld.names))
                /\ GotNames(ld.names)
    /\ ld' = IdleLd
    /\ UNCHANGED <<tree, platform, fault, args, out, kept, mutated, prev, walkNo>>

\* ------------------------------------------------- os_listdir, posix

\* Lines 49-55: opendir; a null dir_p raises.
OpenPosix ==
    /\ platform = "posix"
    /\ Running("listdir")
    /\ ld.pc = "idle"
    /\ LET path == Top.top
           st == opendir(EncodePath(path))
           s == Session(path, st = "ok")
       IN  IF invalid(st)
           THEN /\ ld' = IdleLd
                /\ sessions' = Append(sessions, Raises(s, os_error(st, path)))
                /\ Raised(os_error(st, path))
           ELSE /\ sessions' = Append(sessions, s)
                /\ ld' = [pc |-> "loop", pos |-> 0, names |-> <<>>, exc |-> NoExc]
                /\ UNCHANGED <<stack, gen, errors>>
    /\ UNCHANGED <<tree, platform, fault, args, out, kept, mutated, prev, walkNo>>

\* Mutant: the loop is not inside try/finally, so a failing readdir_r raises
\* past closedir.
StepPosix_no_finally ==
    /\ platform = "posix"
    /\ Running("listdir")
    /\ ld.pc = "loop"
    /\ LET path == Top.top
           st == readdir_r(path, Cur.advances, ld.pos)
       IN  CASE st = "ok" ->
                LET name == Decode(Encode(NativeOrder(NodeOf(path))[ld.pos + 1]))
                IN  /\ sessions' = SetCur([Cur EXCEPT !.advances = @ + 1,
                                                      !.entries = Append(@, name)])
                    /\ ld' = [ld EXCEPT !.names = append(@, name), !.pos = @ + 1]
                    /\ UNCHANGED <<gen, stack, errors>>
             [] st = "end" ->
                /\ sessions' = SetCur([Cur EXCEPT !.advances = @ + 1])
                /\ ld' = [ld EXCEPT !.pc = "finally"]
                /\ UNCHANGED <<gen, stack, errors>>
             [] OTHER ->
                /\ sessions' = SetCur(Raises([Cur EXCEPT !.advances = @ + 1],
                                             os_error(st, path)))
                /\ ld' = IdleLd
                /\ Raised(os_error(st, path))
    /\ UNCHANGED <<tree, platform, fault, args, out, kept, mutated, prev, walkNo>>

\* Lines 56-63: one iteration: readdir_r, which fails, or ends the listing,
\* or fills entry, whose decoded name is filtered.
StepPosix ==
    /\ platform = "posix"
    /\ Running("listdir")
    /\ ld.pc = "loop"
    /\ LET path == Top.top
           st == readdir_r(path, Cur.advances, ld.pos)
       IN  IF st = "ok"
           THEN LET d_name == Encode(NativeOrder(NodeOf(path))[ld.pos + 1])
                    name == Decode(d_name)
                IN  /\ sessions' = SetCur([Cur EXCEPT !.advances = @ + 1,
                                                      !.entries = Append(@, name)])
                    /\ ld' = [ld EXCEPT !.names = append(@, name), !.pos = @ + 1]
           ELSE /\ sessions' = SetCur([Cur EXCEPT !.advances = @ + 1])
                /\ ld' = IF st = "end" THEN [ld EXCEPT !.pc = "finally"]
                         ELSE [ld EXCEPT !.pc = "finally", !.exc = os_error(st, path)]
    /\ UNCHANGED <<tree, platform, fault, args, gen, stack, out, kept, errors, mutated,
                   prev, walkNo>>

\* Mutant: closedir is left to the caller, who never calls it.
ClosePosix_left_open ==
    /\ platform = "posix"
    /\ Running("listdir")
    /\ ld.pc = "finally"
    /\ IF ld.exc # NoExc
       THEN /\ sessions' = SetCur(Raises(Cur, ld.exc))
            /\ Raised(ld.exc)
       ELSE /\ sessions' = SetCur(Returns(Cur, ld.names))
            /\ GotNames(ld.names)
    /\ ld' = IdleLd
    /\ UNCHANGED <<tree, platform, fault, args, out, kept, mutated, prev, walkNo>>

\* Mutant: names is returned without closedir when no error is pending.
ClosePosix_on_error_only ==
    /\ platform = "posix"
    /\ Running("listdir")
    /\ ld.pc = "finally"
    /\ LET path == Top.top
           st == NativeClose(path)
           s == [Cur EXCEPT !.closes = @ + 1]
           err == IF st # "ok" THEN os_error(st, path) ELSE ld.exc
       IN  IF ld.exc = NoExc
           THEN /\ sessions' = SetCur(Returns(Cur, ld.names))
                /\ GotNames(ld.names)
           ELSE /\ sessions' = SetCur(Raises(s, err))
                /\ Raised(err)
    /\ ld' = IdleLd
    /\ UNCHANGED <<tree, platform, fault, args, out, kept, mutated, prev, walkNo>>

\* Lines 64-67: finally: closedir, whose failure raises; else the pending
\* error goes on, or names is returned.
ClosePosix ==
    /\ platform = "posix"
    /\ Running("listdir")
    /\ ld.pc = "finally"
    /\ LET path == Top.top
           st == NativeClose(path)
           s == [Cur EXCEPT !.closes = @ + 1]
           err == IF st # "ok" THEN os_error(st, path) ELSE ld.exc
       IN  IF err # NoExc
           THEN /\ sessions' = SetCur(Raises(s, err))
                /\ Raised(err)
           ELSE /\ sessions' = SetCur(Returns(s, ld.names))
                /\ GotNames(ld.names)
    /\ ld' = IdleLd
    /\ UNCHANGED <<tree, platform, fault, args, out, kept, mutated, prev, walkNo>>

\* ------------------------------------------------- os_walk

RECURSIVE Select_without_else(_, _, _)
\* Mutant: the else is missing, so nondirs receives every name.
Select_without_else(top, names, want) ==
    IF names = <<>> THEN <<>>
    ELSE LET rest == Select_without_else(top, Tail(names), want)
         IN  IF want => isdir(join(top, Head(names)))
             THEN <<Head(names)>> \o rest
             ELSE rest

RECURSIVE Select(_, _, _)
\* The names of a list, in order, whose classification is `want`.
Select(top, names, want) ==
    IF names = <<>> THEN <<>>
    ELSE LET rest == Select(top, Tail(names), want)
         IN  IF isdir(join(top, Head(names))) = want
             THEN <<Head(names)>> \o rest
             ELSE rest

\* Lines 83-88: partition names into dirs and nondirs.
Partition ==
    /\ Running("partition")
    /\ stack' = SetTop(stack, [Top EXCEPT !.dirs = Select(Top.top, Top.names, TRUE),
                                          !.nondirs = Select(Top.top, Top.names, FALSE),
                                          !.pc = "pre"])
    /\ UNCHANGED <<tree, platform, fault, args, gen, ld, sessions, out, kept, errors, mutated,
                   prev, walkNo>>

\* The frame an activation yields: top, dirs, nondirs.
Frame(f) == [path |-> f.top, dirs |-> f.dirs, files |-> f.nondirs]

\* Mutant: the frame is handed over without suspending the walk.
PreOrder_eager ==
    /\ Running("pre")
    /\ stack' = SetTop(stack, [Top EXCEPT !.pc = "loop", !.i = 1])
    /\ IF topdown
       THEN /\ out' = Append(out, Frame(Top))
            /\ kept' = Append(kept, Top.dirs)
       ELSE UNCHANGED <<out, kept>>
    /\ UNCHANGED <<tree, platform, fault, args, gen, ld, sessions, errors, mutated, prev,
                   walkNo>>

\* Lines 90-91: if topdown: yield top, dirs, nondirs.
PreOrder ==
    /\ Running("pre")
    /\ stack' = SetTop(stack, [Top EXCEPT !.pc = "loop", !.i = 1])
    /\ IF topdown
       THEN /\ out' = Append(out, Frame(Top))
            /\ kept' = Append(kept, Top.dirs)
            /\ gen' = "suspended"
       ELSE UNCHANGED <<out, kept, gen>>
    /\ UNCHANGED <<tree, platform, fault, args, ld, sessions, errors, mutated, prev, walkNo>>

\* Mutant: links are skipped whatever followlinks says.
eligible_never_links(new_path) == ~islink(new_path)

\* Mutant: links are followed whatever followlinks says.
eligible_always(new_path) == TRUE

\* Mutant: the sense of followlinks is inverted.
eligible_flag_inverted(new_path) == ~args.followlinks \/ ~islink(new_path)

\* Mutant: the link test is applied in top-down mode only.
eligible_by_order(new_path) == args.followlinks \/ ~islink(new_path) \/ ~topdown

\* followlinks or not os.path.islink(new_path)
eligible(new_path) == args.followlinks \/ ~islink(new_path)

\* Mutant: the loop runs over a copy of dirs taken before the yield.
Descend_over_copy ==
    /\ Running("loop")
    /\ Top.i <= Len(Select(Top.top, Top.names, TRUE))
    /\ LET new_path == join(Top.top, Select(Top.top, Top.names, TRUE)[Top.i])
           here == SetTop(stack, [Top EXCEPT !.i = @ + 1])
       IN  stack' = IF args.followlinks \/ ~islink(new_path)
                    THEN Append(here, Activation(new_path))
                    ELSE here
    /\ UNCHANGED <<tree, platform, fault, args, gen, ld, sessions, out, kept, errors,
                   mutated, prev, walkNo>>

\* Lines 92-96: the next name of dirs: recurse into it when eligible; the
\* frames of the nested walk are passed on as they come.
Descend ==
    /\ Running("loop")
    /\ Top.i <= Len(Top.dirs)
    /\ LET new_path == join(Top.top, Top.dirs[Top.i])
           here == SetTop(stack, [Top EXCEPT !.i = @ + 1])
       IN  stack' = IF eligible(new_path)
                    THEN Append(here, Activation(new_path))
                    ELSE here
    /\ UNCHANGED <<tree, platform, fault, args, gen, ld, sessions, out, kept, errors, mutated,
                   prev, walkNo>>

\* Mutant: the frame is yielded after the loop whatever topdown is.
PostOrder_always ==
    /\ Running("loop")
    /\ Top.i > Len(Top.dirs)
    /\ stack' = SetTop(stack, [Top EXCEPT !.pc = "ret"])
    /\ out' = Append(out, Frame(Top))
    /\ kept' = Append(kept, Top.dirs)
    /\ gen' = "suspended"
    /\ UNCHANGED <<tree, platform, fault, args, ld, sessions, errors, mutated, prev, walkNo>>

\* Lines 97-98: dirs is exhausted: if not topdown: yield top, dirs, nondirs.
PostOrder ==
    /\ Running("loop")
    /\ Top.i > Len(Top.dirs)
    /\ stack' = SetTop(stack, [Top EXCEPT !.pc = "ret"])
    /\ IF ~topdown
       THEN /\ out' = Append(out, Frame(Top))
            /\ kept' = Append(kept, Top.dirs)
            /\ gen' = "suspended"
       ELSE UNCHANGED <<out, kept, gen>>
    /\ UNCHANGED <<tree, platform, fault, args, ld, sessions, errors, mutated, prev, walkNo>>

\* The end of os_walk's body: the activation returns to the one that
\* iterates it, or the generator is exhausted.
Return ==
    /\ Running("ret")
    /\ stack' = Pop(stack)
    /\ gen' = IF Len(stack) = 1 THEN "done" ELSE gen
    /\ UNCHANGED <<tree, platform, fault, args, ld, sessions, out, kept, errors, mutated, prev,
                   walkNo>>

\* ------------------------------------------------- the consumer

\* next() on the generator: the body runs on from where it was suspended.
Request ==
    /\ gen \in {"fresh", "suspended"}
    /\ gen' = "running"
    /\ UNCHANGED <<tree, platform, fault, args, stack, ld, sessions, out, kept, errors, mutated,
                   prev, walkNo>>

\* The bytes of each regular file of the tree, one size per file.
FileSize(node, name) ==
    CASE node = "R" /\ name = "f" -> 1
      [] node = "A" /\ name = "g" -> 2
      [] node = "B" /\ name = "h" -> 4
      [] OTHER -> 0

\* os.path.getsize(fullname): the size of what the path resolves to.
getsize(fullname) ==
    FileSize(Resolve(SubSeq(fullname, 1, Len(fullname) - 1)).node, fullname[Len(fullname)])

RECURSIVE SumSizes(_, _)
\* Lines 140-142: for filename in files: size += getsize(join(root, filename)).
SumSizes(root, files) ==
    IF files = <<>> THEN 0
    ELSE getsize(join(root, Head(files))) + SumSizes(root, Tail(files))

RECURSIVE do_os_walk(_)
\* Lines 137-143: the size accumulated over the frames of one os_walk.
do_os_walk(frames) ==
    IF frames = <<>> THEN 0
    ELSE SumSizes(Head(frames).path, Head(frames).files) + do_os_walk(Tail(frames))

\* The consumer stops iterating: the suspended generators are finalised.
Abandon ==
    /\ gen \in {"fresh", "suspended"}
    /\ gen' = "closed"
    /\ stack' = <<>>
    /\ UNCHANGED <<tree, platform, fault, args, ld, sessions, out, kept, errors, mutated, prev,
                   walkNo>>

Remove(seq, k) == SubSeq(seq, 1, k - 1) \o SubSeq(seq, k + 1, Len(seq))

Reverse(seq) == [k \in 1..Len(seq) |-> seq[Len(seq) + 1 - k]]

\* The consumer changes the dirs list of the frame it has just received, the
\* list object the suspended activation goes on to iterate: del dirs[k], or
\* dirs.reverse().  (After a bottom-up yield the list is never read again.)
MutateDirs ==
    /\ gen = "suspended"
    /\ stack # <<>>
    /\ Top.pc = "loop"
    /\ Top.dirs # <<>>
    /\ \E d \in {Remove(Top.dirs, k) : k \in 1..Len(Top.dirs)} \cup {Reverse(Top.dirs)} :
          /\ d # Top.dirs
          /\ stack' = SetTop(stack, [Top EXCEPT !.dirs = d])
          /\ kept' = [kept EXCEPT ![Len(kept)] = d]
    /\ mutated' = TRUE
    /\ UNCHANGED <<tree, platform, fault, args, gen, ld, sessions, out, errors, prev,
                   walkNo>>

\* A fresh os_walk call on the same tree after a fully consumed walk whose
\* dirs lists were left alone, with the same onerror and followlinks and the
\* other order.
Rewalk ==
    /\ gen = "done"
    /\ ~mutated
    /\ walkNo < MaxWalks
    /\ args' = [args EXCEPT !.topdown = IF topdown THEN "False" ELSE "True"]
    /\ prev' = [valid |-> TRUE, topdown |-> topdown, out |-> out, errors |-> errors]
    /\ walkNo' = walkNo + 1
    /\ gen' = "fresh"
    /\ stack' = <<Activation(<<>>)>>
    /\ sessions' = <<>>
    /\ out' = <<>>
    /\ kept' = <<>>
    /\ errors' = <<>>
    /\ mutated' = FALSE
    /\ UNCHANGED <<tree, platform, fault, ld>>

Next ==
    \/ OpenWin32
    \/ StepWin32
    \/ CloseWin32
    \/ OpenPosix
    \/ StepPosix
    \/ ClosePosix
    \/ Partition
    \/ PreOrder
    \/ Descend
    \/ PostOrder
    \/ Return
    \/ Request
    \/ Abandon
    \/ MutateDirs
    \/ Rewalk

Spec == Init /\ [][Next]_vars

\* The steps of the generator's body between two suspensions.
Walker ==
    \/ OpenWin32 \/ StepWin32 \/ CloseWin32
    \/ OpenPosix \/ StepPosix \/ ClosePosix
    \/ Partition \/ PreOrder \/ Descend \/ PostOrder \/ Return

\* os_walk called with followlinks false or omitted.
LiveInit == Init /\ ~args.followlinks

\* A walk that is consumed to its end: the generator's steps, the requests
\* of the consumer and what it does to the dirs lists in between.
Consumed ==
    \/ Walker
    \/ Request
    \/ MutateDirs

\* A resumed generator body runs on to its next yield or its end, and a
\* consumer that iterates the walk to the end keeps requesting frames.
LiveSpec == LiveInit /\ [][Consumed]_vars /\ WF_vars(Walker) /\ WF_vars(Request)

\* ------------------------------------------------- properties

\* The os_listdir call of session i is over.
Ended(i) == i < Len(sessions) \/ ld.pc = "idle"

\* C1: every session whose native open succeeded is closed exactly once,
\* however its enumeration ends: no close while it is being enumerated, one
\* close once its os_listdir call is over, on both platform variants.
C1_ClosedExactlyOnce ==
    \A i \in DOMAIN sessions :
        sessions[i].ok => sessions[i].closes = (IF Ended(i) THEN 1 ELSE 0)

\* An enumeration that an advance error ended after at least one successful
\* advance, and that was closed.
C1_Witness ==
    \E i \in DOMAIN sessions :
        /\ sessions[i].ok
        /\ Ended(i)
        /\ fault.adv >= 1
        /\ fault.node = NodeOf(sessions[i].path)
        /\ sessions[i].advances = fault.adv + 1
        /\ sessions[i].err.status = AdvanceFailure(platform)
        /\ sessions[i].closes = 1

\* C2: a session whose native open failed is never advanced, yields no entry
\* name and is never closed; os_listdir never enters its loop with it.
C2_FailedOpenUntouched ==
    \A i \in DOMAIN sessions :
        ~sessions[i].ok =>
            /\ sessions[i].advances = 0
            /\ sessions[i].entries = <<>>
            /\ sessions[i].closes = 0
            /\ Ended(i)

\* A failed open after which the walk has gone on to enumerate and close
\* another directory.
C2_Witness ==
    \E i \in DOMAIN sessions :
        /\ ~sessions[i].ok
        /\ i < Len(sessions)
        /\ sessions[Len(sessions)].ok
        /\ sessions[Len(sessions)].closes = 1

\* C3 as stated: whenever the native open reports a failure, os_listdir
\* raises the error of that status at that path and returns no listing.
C3_OpenFailureAlwaysRaises ==
    \A i \in DOMAIN sessions :
        ~sessions[i].ok =>
            /\ sessions[i].outcome = "raised"
            /\ sessions[i].err = os_error(NativeOpen(sessions[i].path), sessions[i].path)

\* C3 amended: a failed native open makes os_listdir raise the error of that
\* status at that path and return no listing, except that on win32 the
\* status ERROR_FILE_NOT_FOUND makes it return the empty listing.
C3_OpenFailureRaisesExceptFileNotFound ==
    \A i \in DOMAIN sessions :
        ~sessions[i].ok =>
            IF platform = "win32" /\ NativeOpen(sessions[i].path) = "ERROR_FILE_NOT_FOUND"
            THEN /\ sessions[i].outcome = "returned"
                 /\ sessions[i].names = <<>>
                 /\ sessions[i].err = NoExc
            ELSE /\ sessions[i].outcome = "raised"
                 /\ sessions[i].names = <<>>
                 /\ sessions[i].err.class = "OSError"
                 /\ sessions[i].err.status = NativeOpen(sessions[i].path)
                 /\ sessions[i].err.path = sessions[i].path

\* An open refused for lack of access, below the top, that raised.
C3_Witness ==
    \E i \in DOMAIN sessions :
        /\ ~sessions[i].ok
        /\ sessions[i].path # <<>>
        /\ sessions[i].outcome = "raised"
        /\ sessions[i].err.status \in {"EACCES", "ERROR_ACCESS_DENIED"}

\* The native listing of a directory without its self and parent entries.
GroundTruth(path) ==
    SelectSeq(NativeOrder(NodeOf(path)), LAMBDA n : n # "." /\ n # "..")

\* C4: an os_listdir call whose open, advances and close all succeeded
\* returns the native sequence without "." and "..": same names, same order,
\* each once.
C4_ListingIsGroundTruth ==
    \A i \in DOMAIN sessions :
        (sessions[i].ok /\ sessions[i].outcome = "returned") =>
            sessions[i].names = GroundTruth(sessions[i].path)

\* On win32, the listing of a directory whose first native entry, the one
\* the open step returns, is a real name.
C4_Witness ==
    \E i \in DOMAIN sessions :
        /\ platform = "win32"
        /\ sessions[i].ok
        /\ sessions[i].outcome = "returned"
        /\ keep(NativeOrder(NodeOf(sessions[i].path))[1])
        /\ sessions[i].names = <<"b", "g">>

ProperPrefix(p, q) == Len(p) < Len(q) /\ SubSeq(q, 1, Len(p)) = p

\* C5: with topdown True, which is the default, a directory's frame comes
\* before the frame of each of its descendants; with topdown False it comes
\* after all of them.
C5_FrameOrder ==
    \A i, j \in DOMAIN out :
        ProperPrefix(out[i].path, out[j].path) =>
            IF args.topdown \in {"omitted", "True"} THEN i < j ELSE j < i

\* A full walk with topdown omitted that yielded the top first and a
\* directory two levels down later.
C5_Witness ==
    /\ args.topdown = "omitted"
    /\ gen = "done"
    /\ Len(out) >= 4
    /\ out[1].path = <<>>
    /\ \E j \in DOMAIN out : out[j].path = <<"a", "b">>

Range(seq) == {seq[k] : k \in DOMAIN seq}

\* C6: two fully consumed walks of the same tree with the same followlinks
\* and onerror, one top-down and one bottom-up, dirs left alone, yield the
\* same frames, each as often.
C6_SameFramesBothOrders ==
    (gen = "done" /\ ~mutated /\ prev.valid /\ prev.topdown # topdown) =>
        /\ Range(out) = Range(prev.out)
        /\ Len(out) = Len(prev.out)

\* Two such walks of several frames whose orders differ.
C6_Witness ==
    /\ gen = "done"
    /\ ~mutated
    /\ prev.valid
    /\ prev.topdown # topdown
    /\ Len(out) >= 4
    /\ out # prev.out

FrameAt(path) == \E k \in DOMAIN out : out[k].path = path

SessionAt(path) == \E k \in DOMAIN sessions : sessions[k].path = path

\* Handler calls made with an error at `path`.
Reports(path) == {k \in DOMAIN errors : errors[k].path = path}

\* No frame and no session for any directory below `path`.
NothingBelow(path) ==
    /\ \A k \in DOMAIN out : ~ProperPrefix(path, out[k].path)
    /\ \A k \in DOMAIN sessions : ~ProperPrefix(path, sessions[k].path)

\* At the end of a walk whose dirs lists were left alone: the top was
\* enumerated, every eligible subdirectory named in a frame was enumerated,
\* and every directory whose enumeration returned has its frame.
Covered ==
    (gen \in {"done", "failed"} /\ ~mutated) =>
        /\ SessionAt(<<>>)
        /\ \A k \in DOMAIN out : \A n \in DOMAIN out[k].dirs :
              LET sub == join(out[k].path, out[k].dirs[n])
              IN  (args.followlinks \/ ~islink(sub)) => SessionAt(sub)
        /\ \A k \in DOMAIN sessions :
              sessions[k].outcome = "returned" => FrameAt(sessions[k].path)

\* C7 as stated: with onerror supplied, every directory whose native open
\* fails is reported to the handler exactly once with its error, gets no
\* frame, has nothing below it visited, and the rest of the tree is covered.
C7_OpenFailureReportedOnce ==
    args.onerror =>
        /\ \A i \in DOMAIN sessions :
              ~sessions[i].ok =>
                  /\ Cardinality(Reports(sessions[i].path)) = 1
                  /\ \A k \in Reports(sessions[i].path) :
                        errors[k] = os_error(NativeOpen(sessions[i].path),
                                             sessions[i].path)
                  /\ ~FrameAt(sessions[i].path)
                  /\ NothingBelow(sessions[i].path)
        /\ Covered

\* C7 amended: the same for every native open failure but the win32 status
\* ERROR_FILE_NOT_FOUND, on which the handler is not called and the
\* directory gets, once reached, a frame with no dirs and no files.
C7_OpenFailureReportedOnceExceptFileNotFound ==
    args.onerror =>
        /\ \A i \in DOMAIN sessions :
              ~sessions[i].ok =>
                  IF platform = "win32"
                     /\ NativeOpen(sessions[i].path) = "ERROR_FILE_NOT_FOUND"
                  THEN /\ Reports(sessions[i].path) = {}
                       /\ \A k \in DOMAIN out :
                             out[k].path = sessions[i].path =>
                                 out[k].dirs = <<>> /\ out[k].files = <<>>
                       /\ NothingBelow(sessions[i].path)
                  ELSE /\ Cardinality(Reports(sessions[i].path)) = 1
                       /\ \A k \in Reports(sessions[i].path) :
                             errors[k] = os_error(NativeOpen(sessions[i].path),
                                                  sessions[i].path)
                       /\ ~FrameAt(sessions[i].path)
                       /\ NothingBelow(sessions[i].path)
        /\ Covered

\* The tree top/a/b, top/c with b unreadable, fully walked: one report, for
\* a/b, and frames for the top, a and c.
C7_Witness ==
    /\ args.onerror
    /\ gen = "done"
    /\ ~mutated
    /\ fault.node = "B"
    /\ fault.open \in {"EACCES", "ERROR_ACCESS_DENIED"}
    /\ Len(errors) = 1
    /\ errors[1].path = <<"a", "b">>
    /\ FrameAt(<<>>) /\ FrameAt(<<"a">>) /\ FrameAt(<<"c">>)
    /\ ~FrameAt(<<"a", "b">>)

\* C8: with onerror None, an OSError of os_listdir never reaches the
\* consumer: the walk does not fail, the directory gets no frame and nothing
\* below it is visited, and the rest of the tree is covered.
C8_ErrorsSwallowed ==
    ~args.onerror =>
        /\ gen # "failed"
        /\ errors = <<>>
        /\ \A i \in DOMAIN sessions :
              sessions[i].outcome = "raised" =>
                  /\ ~FrameAt(sessions[i].path)
                  /\ NothingBelow(sessions[i].path)
        /\ Covered

\* A full walk without handler in which the enumeration of a raised, and
\* the top and a's sibling c have their frames.
C8_Witness ==
    /\ ~args.onerror
    /\ gen = "done"
    /\ ~mutated
    /\ \E i \in DOMAIN sessions :
          sessions[i].path = <<"a">> /\ sessions[i].outcome = "raised"
    /\ FrameAt(<<>>) /\ FrameAt(<<"c">>)
    /\ ~FrameAt(<<"a">>)

\* C9: whenever the generator is suspended at a frame, and after the
\* consumer has stopped there, no os_listdir call is under way and every
\* session opened so far has been closed.
C9_NoSessionOpenAtYield ==
    gen \in {"suspended", "closed"} =>
        /\ ld.pc = "idle"
        /\ \A i \in DOMAIN sessions :
              sessions[i].ok => sessions[i].closes = 1

\* A consumer that stopped after two frames of a longer walk.
C9_Witness ==
    /\ gen = "closed"
    /\ Len(out) = 2
    /\ ~SessionAt(<<"c">>)
    /\ \A i \in DOMAIN sessions : sessions[i].ok

\* A path with a symbolic link among its components.
ThroughLink(path) == \E k \in 1..Len(path) : islink(SubSeq(path, 1, k))

\* C10: with followlinks False, a link to a directory is in the dirs of the
\* frame of its parent (a parent the OS opened), and no session is opened and
\* no frame is yielded for the link or for anything reached through it.
C10_LinksListedNotFollowed ==
    ~args.followlinks =>
        /\ \A i \in DOMAIN sessions : ~ThroughLink(sessions[i].path)
        /\ \A k \in DOMAIN out :
              /\ ~ThroughLink(out[k].path)
              /\ \A m \in DOMAIN GroundTruth(out[k].path) :
                    LET sub == join(out[k].path, GroundTruth(out[k].path)[m])
                    IN  (islink(sub) /\ isdir(sub) /\ NativeOpen(out[k].path) = "ok")
                           => \E n \in DOMAIN out[k].dirs :
                                 out[k].dirs[n] = GroundTruth(out[k].path)[m]

\* A full walk without followlinks that listed the link c/up in the frame of
\* c, in either order mode.
C10_Witness ==
    /\ ~args.followlinks
    /\ gen = "done"
    /\ ~mutated
    /\ \E k \in DOMAIN out :
          out[k].path = <<"c">> /\ out[k].dirs = <<"up">>
    /\ ~FrameAt(<<"c", "up">>)

\* A path that leads back to a directory it has already passed through.
Revisits(path) ==
    \E k \in 0..(Len(path) - 1) : NodeOf(SubSeq(path, 1, k)) = NodeOf(path)

SessionsAt(path) == {k \in DOMAIN sessions : sessions[k].path = path}

FramesAt(path) == {k \in DOMAIN out : out[k].path = path}

\* Each link to a directory named in the dirs of a frame of a finished walk
\* has one session, and one frame when its enumeration returned.
LinksFollowedOnce ==
    (gen = "done" /\ ~mutated) =>
        \A k \in DOMAIN out : \A n \in DOMAIN out[k].dirs :
            LET sub == join(out[k].path, out[k].dirs[n])
            IN  islink(sub) =>
                    /\ Cardinality(SessionsAt(sub)) = 1
                    /\ \A i \in SessionsAt(sub) :
                          sessions[i].outcome = "returned" =>
                              Cardinality(FramesAt(sub)) = 1

\* C11 as stated: with followlinks True every link to a directory in a
\* frame's dirs is recursed into once, and a cyclic link structure is
\* detected and skipped: no directory is entered again from below itself.
C11_LinksFollowedCyclesSkipped ==
    args.followlinks =>
        /\ LinksFollowedOnce
        /\ \A i \in DOMAIN sessions : ~Revisits(sessions[i].path)

\* C11 amended: with followlinks True every link to a directory in a frame's
\* dirs is recursed into once, cyclic or not; nothing detects a cycle: the
\* descent through it ends only where the OS stops resolving the path, so no
\* path entered holds more links than the OS resolves.
C11_LinksFollowedUntilOSLimit ==
    args.followlinks =>
        /\ LinksFollowedOnce
        /\ \A i \in DOMAIN sessions :
              /\ Cardinality(SessionsAt(sessions[i].path)) = 1
              /\ Resolve(sessions[i].path).links <= MaxLinks
        /\ (gen = "done" /\ ~mutated) =>
              \A k \in DOMAIN out : \A m \in DOMAIN GroundTruth(out[k].path) :
                  LET sub == join(out[k].path, GroundTruth(out[k].path)[m])
                  IN  (islink(sub) /\ isdir(sub) /\ NativeOpen(out[k].path) = "ok")
                         => SessionAt(sub)

\* A full walk with followlinks that entered c again through the link c/up
\* and yielded a frame for it.
C11_Witness ==
    /\ args.followlinks
    /\ gen = "done"
    /\ ~mutated
    /\ Revisits(<<"c", "up">>)
    /\ Cardinality(FramesAt(<<"c", "up">>)) = 1
    /\ Cardinality(SessionsAt(<<"c", "up">>)) = 1

\* C12: top-down, the dirs list of a frame as the consumer leaves it decides
\* the descent: a name taken out of it is never opened and nothing below it
\* is visited, the names left in it are opened in the order they have in it,
\* and by the end of the walk each eligible one has been opened.
C12_PruningDecidesDescent ==
    args.topdown \in {"omitted", "True"} =>
        \A k \in DOMAIN out :
            /\ \A n \in DOMAIN out[k].dirs :
                  LET sub == join(out[k].path, out[k].dirs[n])
                  IN  (out[k].dirs[n] \notin Range(kept[k])) =>
                          ~SessionAt(sub) /\ NothingBelow(sub)
            /\ \A a, b \in DOMAIN kept[k] :
                  a < b =>
                      \A i \in SessionsAt(join(out[k].path, kept[k][a])) :
                      \A j \in SessionsAt(join(out[k].path, kept[k][b])) : i < j
            /\ gen = "done" =>
                  \A a \in DOMAIN kept[k] :
                      LET sub == join(out[k].path, kept[k][a])
                      IN  (args.followlinks \/ ~islink(sub)) => SessionAt(sub)

\* A full top-down walk in which the consumer reversed the dirs of the top
\* and emptied those of a: c was opened before a, and a/b never.
C12_Witness ==
    /\ args.topdown \in {"omitted", "True"}
    /\ gen = "done"
    /\ Len(out) >= 2
    /\ out[1].dirs = <<"a", "c">>
    /\ kept[1] = <<"c", "a">>
    /\ \E k \in DOMAIN out :
          out[k].path = <<"a">> /\ out[k].dirs = <<"b">> /\ kept[k] = <<>>
    /\ \E i, j \in DOMAIN sessions :
          i < j /\ sessions[i].path = <<"c">> /\ sessions[j].path = <<"a">>
    /\ ~SessionAt(<<"a", "b">>)

Parent(path) == SubSeq(path, 1, Len(path) - 1)

Enumerated == {i \in DOMAIN sessions : sessions[i].outcome = "returned"}

\* Top-down, while the walk waits for the consumer: nothing is opened before
\* the first request, as many enumerations have returned as frames were
\* delivered, and every directory opened so far lies under a frame
\* delivered before the latest one.
LazyState ==
    args.topdown \in {"omitted", "True"} =>
        /\ gen = "fresh" => sessions = <<>>
        /\ gen = "suspended" =>
              /\ ld.pc = "idle"
              /\ Cardinality(Enumerated) = Len(out)
              /\ \A i \in DOMAIN sessions :
                    sessions[i].path # <<>> =>
                        \E j \in 1..(Len(out) - 1) :
                            out[j].path = Parent(sessions[i].path)

\* Within one walk: a frame is delivered one at a time and suspends the
\* walk, and while the walk is not running no native call is made and no
\* frame appears.
LazyStep ==
    (args.topdown \in {"omitted", "True"} /\ walkNo' = walkNo) =>
        /\ out' # out => (Len(out') = Len(out) + 1 /\ gen' = "suspended")
        /\ gen # "running" => (sessions' = sessions /\ ld' = ld /\ out' = out)

\* C13: a top-down walk is lazy: when the k-th frame is delivered exactly k
\* enumerations have returned (failed ones aside), no directory is opened
\* before a frame beyond its parent's was requested, and nothing happens
\* between requests.
C13_LazyPreOrder == [](LazyState) /\ [][LazyStep]_vars

\* The walk suspended at its second frame, that of c, after the enumeration
\* of a failed: two enumerations returned, three directories were opened.
C13_Witness ==
    /\ args.topdown \in {"omitted", "True"}
    /\ gen = "suspended"
    /\ Len(out) = 2
    /\ out[2].path = <<"c">>
    /\ Cardinality(Enumerated) = 2
    /\ Len(sessions) = 3

RECURSIVE FilesUnder(_, _)
\* The paths of the regular files of the tree at and below a directory.
FilesUnder(path, node) ==
    UNION {LET e == Entry(node, n)
           IN  IF e.target = "file" THEN {join(path, n)}
               ELSE IF e.target \in DirNodes THEN FilesUnder(join(path, n), e.target)
               ELSE {}
           : n \in Range(GroundTruth(path))}

RECURSIVE SumOver(_)
SumOver(paths) ==
    IF paths = {} THEN 0
    ELSE LET p == CHOOSE q \in paths : TRUE
         IN  FileSize(Resolve(Parent(p)).node, p[Len(p)]) + SumOver(paths \ {p})

\* The known total byte count of the tree.
TreeSize == SumOver(FilesUnder(<<>>, "R"))

\* The places a path holds in the files lists of the frames.
Listed(p) ==
    {<<k, n>> \in (DOMAIN out) \X (1..Len(NativeOrder("R"))) :
        /\ n \in DOMAIN out[k].files
        /\ join(out[k].path, out[k].files[n]) = p}

\* C14: in a tree without links whose directories are all readable, a fully
\* consumed os_walk lists every regular file once, in the frame of its parent
\* directory, and the sizes summed over the frames equal the tree's total.
C14_SizeEquivalence ==
    (tree = "plain" /\ fault = NoFault /\ gen = "done" /\ ~mutated) =>
        /\ \A p \in FilesUnder(<<>>, "R") :
              /\ Cardinality(Listed(p)) = 1
              /\ \A l \in Listed(p) : out[l[1]].path = Parent(p)
        /\ do_os_walk(out) = TreeSize

\* A finished walk of the plain tree that summed the sizes of its three files.
C14_Witness ==
    /\ tree = "plain" /\ fault = NoFault /\ gen = "done" /\ ~mutated
    /\ Cardinality(FilesUnder(<<>>, "R")) = 3
    /\ do_os_walk(out) = TreeSize /\ TreeSize > 0
    /\ Len(out) = 4

\* The session's native open succeeded and one of its advance calls failed.
AdvanceFailed(i) ==
    /\ sessions[i].ok
    /\ Faulty(sessions[i].path)
    /\ fault.adv >= 0
    /\ sessions[i].advances = fault.adv + 1

\* The error that leaves an os_listdir call whose advance failed.
AdvanceError(path) ==
    os_error(IF fault.close THEN CloseFailure(platform) ELSE AdvanceFailure(platform), path)

\* C15: when an advance fails after a successful open, the session is closed
\* all the same, the directory yields no frame, none of the names read from
\* it is descended into, the error goes to the handler if there is one, and
\* the walk goes on with the siblings and ancestors of the directory.
C15_AdvanceFailure ==
    /\ \A i \in DOMAIN sessions :
          (AdvanceFailed(i) /\ Ended(i)) =>
              /\ sessions[i].closes = 1
              /\ sessions[i].outcome = "raised"
              /\ ~FrameAt(sessions[i].path)
              /\ NothingBelow(sessions[i].path)
              /\ IF args.onerror
                 THEN /\ Cardinality(Reports(sessions[i].path)) = 1
                      /\ \A k \in Reports(sessions[i].path) :
                            errors[k] = AdvanceError(sessions[i].path)
                 ELSE errors = <<>>
    /\ (\E i \in DOMAIN sessions : AdvanceFailed(i)) => (gen # "failed" /\ Covered)

\* A full walk with a handler in which the enumeration of a failed after b,
\* a directory, had been read: b was never opened, c has its frame.
C15_Witness ==
    /\ args.onerror
    /\ gen = "done"
    /\ ~mutated
    /\ ~fault.close
    /\ \E i \in DOMAIN sessions :
          /\ AdvanceFailed(i)
          /\ sessions[i].path = <<"a">>
          /\ "b" \in Range(sessions[i].entries)
    /\ ~SessionAt(<<"a", "b">>)
    /\ FrameAt(<<"c">>)
    /\ Len(errors) = 1

\* The session's native open succeeded and its close call failed.
CloseFailed(i) ==
    /\ sessions[i].ok
    /\ Faulty(sessions[i].path)
    /\ fault.close
    /\ Ended(i)

\* C16: a failing native close is attempted once and never again, its error
\* goes to the handler if there is one, and the walk goes on with the
\* siblings and ancestors of the directory.
C16_CloseFailure ==
    /\ \A i \in DOMAIN sessions :
          CloseFailed(i) =>
              /\ sessions[i].closes = 1
              /\ sessions[i].err = os_error(CloseFailure(platform), sessions[i].path)
              /\ IF args.onerror
                 THEN /\ Cardinality(Reports(sessions[i].path)) = 1
                      /\ \A k \in Reports(sessions[i].path) : errors[k] = sessions[i].err
                 ELSE errors = <<>>
    /\ (\E i \in DOMAIN sessions : CloseFailed(i)) => (gen # "failed" /\ Covered)

\* A full walk with a handler in which closing a failed after all of its
\* entries had been read: one report, and c, its sibling, has its frame.
C16_Witness ==
    /\ args.onerror
    /\ gen = "done"
    /\ ~mutated
    /\ fault.adv = -1
    /\ \E i \in DOMAIN sessions :
          /\ CloseFailed(i)
          /\ sessions[i].path = <<"a">>
          /\ sessions[i].entries = NativeOrder("A")
    /\ Len(errors) = 1
    /\ FrameAt(<<>>) /\ FrameAt(<<"c">>)

\* C17: in every frame, dirs holds the names of the directory's listing that
\* are directories and files all the others, each in the order of the
\* listing, so every listed name is in exactly one of the two lists.
C17_FramePartition ==
    \A k \in DOMAIN out :
        /\ Cardinality(SessionsAt(out[k].path)) = 1
        /\ \A i \in SessionsAt(out[k].path) :
              LET top == out[k].path
                  names == sessions[i].names
              IN  /\ sessions[i].outcome = "returned"
                  /\ out[k].dirs = SelectSeq(names, LAMBDA n : isdir(join(top, n)))
                  /\ out[k].files = SelectSeq(names, LAMBDA n : ~isdir(join(top, n)))
                  /\ Range(out[k].dirs) \cap Range(out[k].files) = {}
                  /\ Range(out[k].dirs) \cup Range(out[k].files) = Range(names)
                  /\ Len(out[k].dirs) + Len(out[k].files) = Len(names)

\* The frame of the top directory, whose listing a, f, c mixes directories
\* and a file.
C17_Witness ==
    \E k \in DOMAIN out :
        /\ out[k].path = <<>>
        /\ out[k].dirs = <<"a", "c">>
        /\ out[k].files = <<"f">>

\* The sessions that hold a native handle: opened and not yet closed.
OpenSessions == {i \in DOMAIN sessions : sessions[i].ok /\ sessions[i].closes = 0}

\* C18: at most one session is open at any time, the one of the running
\* os_listdir call: it is closed before the frame of its directory is yielded
\* and before any directory below it is opened, whatever the depth.
C18_AtMostOneSessionOpen ==
    /\ Cardinality(OpenSessions) <= 1
    /\ \A i \in OpenSessions :
          /\ i = Len(sessions)
          /\ ld.pc # "idle"
          /\ gen = "running"
          /\ ~FrameAt(sessions[i].path)
          /\ NothingBelow(sessions[i].path)

\* The session of a/b, two levels down, is open while those of the top and
\* of a are closed.
C18_Witness ==
    /\ Len(stack) = 3
    /\ Len(sessions) >= 3
    /\ OpenSessions = {Len(sessions)}
    /\ Cur.path = <<"a", "b">>
    /\ Cur.advances >= 1
    /\ \A i \in 1..(Len(sessions) - 1) : sessions[i].ok /\ sessions[i].closes = 1

\* C20: when an advance fails and the close in the finally block fails too,
\* one error leaves os_listdir, that of the close, and the handler is called
\* once for the directory; when the close fails after every advance
\* succeeded, the names collected are dropped and the directory has no frame.
C20_CloseErrorReplaces ==
    \A i \in DOMAIN sessions :
        CloseFailed(i) =>
            /\ sessions[i].outcome = "raised"
            /\ sessions[i].err.status = CloseFailure(platform)
            /\ sessions[i].err.status # AdvanceFailure(platform)
            /\ sessions[i].names = <<>>
            /\ ~FrameAt(sessions[i].path)
            /\ args.onerror =>
                  /\ Cardinality(Reports(sessions[i].path)) = 1
                  /\ \A k \in Reports(sessions[i].path) :
                        errors[k].status = CloseFailure(platform)
            /\ AdvanceFailed(i) => Len(errors) <= 1
            /\ ~AdvanceFailed(i) =>
                  /\ sessions[i].advances >= Len(GroundTruth(sessions[i].path))
                  /\ \A n \in Range(GroundTruth(sessions[i].path)) :
                        n \in Range(sessions[i].entries)

\* With a handler, the enumeration of a failed at its second advance and its
\* close failed as well: the one report carries the close error.
C20_Witness ==
    /\ args.onerror
    /\ fault.close
    /\ fault.adv = 1
    /\ \E i \in DOMAIN sessions :
          /\ CloseFailed(i)
          /\ AdvanceFailed(i)
          /\ sessions[i].path = <<"a">>
    /\ Len(errors) = 1
    /\ errors[1].status = CloseFailure(platform)
    /\ gen = "done"

\* With followlinks false, no two frames are those of the same directory of
\* the tree, and every frame is that of a directory.
OneFramePerDirectory ==
    ~args.followlinks =>
        \A k \in DOMAIN out :
            /\ NodeOf(out[k].path) \in DirNodes
            /\ \A j \in DOMAIN out :
                  NodeOf(out[j].path) = NodeOf(out[k].path) => j = k

\* C19: with followlinks false, a walk that is consumed to the end comes to
\* its end, also in a tree whose links form a cycle, and it yields at most
\* one frame per directory of the tree.
C19_TerminatesWithoutFollowing ==
    /\ []OneFramePerDirectory
    /\ (gen = "fresh" /\ ~args.followlinks) ~> (gen \in {"done", "closed", "failed"})

\* A finished walk of the tree with the cyclic link, followlinks false: the
\* link is listed in the frame of c and there are as many frames as
\* directories.
C19_Witness ==
    /\ tree = "linked"
    /\ ~args.followlinks
    /\ fault = NoFault
    /\ gen = "done"
    /\ ~mutated
    /\ \E k \in DOMAIN out : out[k].path = <<"c">> /\ out[k].dirs = <<"up">>
    /\ Len(out) = Cardinality(DirNodes)

====
